---- MODULE Spec2Model ----
(***************************************************************************)
(* Model of Orchestrator.py: the driver that runs the three gated stages   *)
(* of the LXC-Threat-API-Mapping pipeline (extract, enrich, map) and then  *)
(* one python-ast-visualizer call per threat-map entry.                    *)
(*                                                                         *)
(* Strings the code computes with (paths, patterns) are sequences of       *)
(* one-character strings, so that strip/basename/splitext/join are         *)
(* computed character by character as the library computes them.           *)
(***************************************************************************)
EXTENDS Integers, Sequences, FiniteSets, TLC

VARIABLES fs, out_dir, dir_exists, pngs, pc, ret, gates, started, rcs, data, idx, exit_code,
          job, norm, built

\* the workflow's state: the disk, the configuration and each run's position
flow == <<fs, out_dir, dir_exists, pngs, pc, ret, gates, started, rcs, data, idx, exit_code>>

\* the inputs and results of the naming functions applied on their own
pure == <<job, norm, built>>

vars == <<flow, pure>>

(***************************************************************************)
(* Bounds and input sets                                                   *)
(***************************************************************************)
\* longest threat map the model loads
MaxEntries == 2

\* the workflow processes that may run against the same artifact paths
Runs == {"r1", "r2"}

\* returncode of subprocess.run: an exit status 0..255, or -N when the child
\* was killed by signal N
ReturnCodes == {0, 1, 3, 255, -9}

\* a path on disk: absent, or a file with a body. A file whose body is not
\* usable structured data (an empty or truncated file) has parses = FALSE.
Absent == [present |-> FALSE, parses |-> FALSE, body |-> <<>>]
EmptyFile == [present |-> TRUE, parses |-> FALSE, body |-> <<>>]
File(b) == [present |-> TRUE, parses |-> TRUE, body |-> b]

\* risk databases found on disk before the run, and those a tool writes
OldDbs == {EmptyFile, File(<<"old">>)}
NewDbs == {EmptyFile, File(<<"new">>)}

\* --output values of the runs (PureDirs has more for the naming on its own)
OutputDirs == {<<"o">>}

\* longest api pattern the normalization is applied to on its own
MaxPatLen == 4

\* longest api pattern of the entries whose command is built on its own
MaxNamePatLen == 2

PatChars == {"^", "$", "\\", "e", "."}

FileNames ==
    {<<"a", "/", "u", ".", "p", "y">>, <<"u", ".", "p", "y">>, <<"u">>, <<".", "p", "y">>,
     <<"a", ".", "b", "/", "u">>, <<"u", ".", "t", ".", "g">>, <<"/", "u", ".", "p", "y">>, <<"a", "/", "u", ".">>}

CodeRoots == {<<"r">>, <<"/", "r", "/">>}

PureDirs == {<<"o">>, <<"o", "/">>, <<"/", "t", "/", "o">>}

\* threat entries: objects with optional string fields file, api, code_root
EntryEval == [file |-> <<"a", "/", "u", ".", "p", "y">>, api |-> <<"^", "e", "$">>, code_root |-> <<"r">>]
EntryEvalB == [file |-> <<"b", "/", "u", ".", "p", "y">>, api |-> <<"e">>]
EntryInner == [file |-> <<"u">>, api |-> <<"\\", "e", "$", "f">>, code_root |-> <<"/", "r">>]
EntryAnchors == [file |-> <<"/", "u", ".", "p", "y">>, api |-> <<"^", "$">>, code_root |-> <<"r">>]
EntryNoFile == [api |-> <<"e">>, code_root |-> <<"r">>]
EntryEmptyApi == [file |-> <<"a", "/", "u", ".", "p", "y">>, api |-> <<>>]

Entries == {EntryEval, EntryEvalB, EntryInner, EntryAnchors, EntryNoFile, EntryEmptyApi}

RECURSIVE SeqsUpTo(_, _)
SeqsUpTo(S, n) ==
    IF n = 0 THEN {<<>>}
    ELSE LET shorter == SeqsUpTo(S, n - 1)
         IN  shorter \cup {Append(s, e) : s \in {t \in shorter : Len(t) = n - 1}, e \in S}

ThreatMaps == SeqsUpTo(Entries, MaxEntries)

(***************************************************************************)
(* Library functions the driver calls                                      *)
(***************************************************************************)
\* a strip that removes one character at most
lstrip_once(s, chars) ==
    IF s # <<>> /\ Head(s) \in chars THEN Tail(s) ELSE s

\* str.strip(chars)
RECURSIVE lstrip(_, _)
lstrip(s, chars) ==
    IF s # <<>> /\ Head(s) \in chars THEN lstrip(Tail(s), chars) ELSE s

RECURSIVE rstrip(_, _)
rstrip(s, chars) ==
    IF s # <<>> /\ s[Len(s)] \in chars THEN rstrip(SubSeq(s, 1, Len(s) - 1), chars) ELSE s

strip(s, chars) == rstrip(lstrip(s, chars), chars)

\* str.rfind(c) + 1: the 1-based index of the last c in s, 0 when there is none
rfind(s, c) ==
    LET hits == {i \in 1..Len(s) : s[i] = c}
    IN  IF hits = {} THEN 0 ELSE CHOOSE i \in hits : \A j \in hits : j <= i

\* posixpath.basename
basename(p) == SubSeq(p, rfind(p, "/") + 1, Len(p))

\* posixpath.splitext(p)[0]: cut at the last dot of the last component, unless
\* that component has nothing but dots before it
splitext_root(p) ==
    LET sepIndex == rfind(p, "/")
        dotIndex == rfind(p, ".")
    IN  IF dotIndex > sepIndex
           /\ \E k \in (sepIndex + 1)..(dotIndex - 1) : p[k] # "."
        THEN SubSeq(p, 1, dotIndex - 1)
        ELSE p

\* posixpath.join(a, b)
join(a, b) ==
    IF b # <<>> /\ Head(b) = "/" THEN b
    ELSE IF a = <<>> \/ a[Len(a)] = "/" THEN a \o b
    ELSE a \o <<"/">> \o b

\* dict.get(key, default)
get(entry, key, default) == IF key \in DOMAIN entry THEN entry[key] ELSE default

\* a filter that only looks for the key
falsy_missing(entry, key) == key \notin DOMAIN entry

\* `not entry.get(key)`: the key is absent (None) or its string is empty
falsy(entry, key) == key \notin DOMAIN entry \/ entry[key] = <<>>

(***************************************************************************)
(* Artifact paths and commands                                             *)
(***************************************************************************)
Artifacts == {"risk_db", "enriched", "threat_map"}

\* main: the three fixed artifact paths under the LXC repository
ArtifactPath(a) ==
    CASE a = "risk_db" -> <<"risk_db.json">>
      [] a = "enriched" -> <<"risk_db_llm.json">>
      [] a = "threat_map" -> <<"threat_map.json">>

\* a gate that also wants the file to hold usable data
exists_nonempty(a) == fs[a].present /\ fs[a].parses

\* a gate that tests the first stage's path whatever the stage
exists_first(a) == fs["risk_db"].present

\* os.path.exists on an artifact path
exists(a) == fs[a].present

StageTool(a) ==
    CASE a = "risk_db" -> "nvd_api_extractor.py"
      [] a = "enriched" -> "llm_api_enricher.py"
      [] a = "threat_map" -> "threat_api_mapper.py"

\* the input artifact a stage's command names (the extractor reads the SBOM)
StageInput(a) ==
    CASE a = "risk_db" -> <<"sbom">>
      [] a = "enriched" -> ArtifactPath("risk_db")
      [] a = "threat_map" -> ArtifactPath("enriched")

StageCmd(a) ==
    [tool |-> StageTool(a), src |-> StageInput(a), target |-> <<>>, out |-> ArtifactPath(a), art |-> a, entry |-> 0]

\* a pipeline that goes from extraction straight to mapping
NextStage_skip(a) ==
    CASE a = "risk_db" -> "threat_map"
      [] a = "enriched" -> "threat_map"
      [] a = "threat_map" -> "mkdir"

\* ensure_mapping and main: what follows a stage
NextStage(a) ==
    CASE a = "risk_db" -> "enriched"
      [] a = "enriched" -> "threat_map"
      [] a = "threat_map" -> "mkdir"

\* visualize_calls, lines 90-102: the command built for one valid entry
abs_file(entry) == join(get(entry, "code_root", <<>>), entry.file)

\* a normalization that removes the anchors wherever they stand
target_name_all(entry) == SelectSeq(entry.api, LAMBDA c : c \notin {"^", "$", "\\"})

target_name(entry) == strip(entry.api, {"^", "$", "\\"})

\* a name that keeps the file's extension
out_png_ext(entry, output_dir) ==
    join(output_dir, basename(entry.file) \o <<"_">> \o target_name(entry) \o <<".", "p", "n", "g">>)

out_png(entry, output_dir) ==
    join(output_dir, splitext_root(basename(entry.file)) \o <<"_">> \o target_name(entry) \o <<".", "p", "n", "g">>)

\* a command whose output name is made unique by the entry's position
VizCmd_indexed(entry, output_dir, i) ==
    [tool |-> "astvisualizer.py", src |-> abs_file(entry), target |-> target_name(entry),
     out |-> out_png(entry, output_dir) \o (IF i = 1 THEN <<>> ELSE <<".", "2">>), art |-> "png", entry |-> i]

VizCmd(entry, output_dir, i) ==
    [tool |-> "astvisualizer.py", src |-> abs_file(entry), target |-> target_name(entry),
     out |-> out_png(entry, output_dir), art |-> "png", entry |-> i]

(***************************************************************************)
(* State                                                                   *)
(***************************************************************************)
Running(r) == Len(rcs[r]) < Len(started[r])

Terminated(r) == pc[r] \in {"done", "exited"}

\* no naming function is applied on its own while the workflow runs
NoJob == [dir |-> <<>>, entry |-> [file |-> <<>>, api |-> <<>>], pos |-> 0]

TmFiles == {EmptyFile} \cup {File(m) : m \in ThreatMaps}

Init ==
    /\ fs \in [risk_db : {Absent} \cup OldDbs, enriched : {Absent} \cup OldDbs,
               threat_map : {Absent} \cup TmFiles]
    /\ out_dir \in OutputDirs
    /\ dir_exists \in BOOLEAN
    /\ pngs = {}
    /\ pc = [r \in Runs |-> "idle"]
    /\ ret = [r \in Runs |-> "idle"]
    /\ gates = [r \in Runs |-> <<>>]
    /\ started = [r \in Runs |-> <<>>]
    /\ rcs = [r \in Runs |-> <<>>]
    /\ data = [r \in Runs |-> <<>>]
    /\ idx = [r \in Runs |-> 0]
    /\ exit_code = [r \in Runs |-> -1]
    /\ job = NoJob
    /\ norm = <<>>
    /\ built = <<>>

(***************************************************************************)
(* Actions                                                                 *)
(***************************************************************************)
\* main, lines 107-132: parse the arguments, fix the paths, enter ensure_mapping
Main(r) ==
    /\ pc[r] = "idle"
    /\ pc' = [pc EXCEPT ![r] = "risk_db"]
    /\ UNCHANGED <<fs, out_dir, dir_exists, pngs, ret, gates, started, rcs, data, idx, exit_code, pure>>

\* a runner that starts the child and goes on without waiting for it
Spawn_nowait(r, cmd, after) ==
    /\ started' = [started EXCEPT ![r] = Append(@, [cmd |-> cmd, seen |-> fs, dir |-> dir_exists])]
    /\ ret' = [ret EXCEPT ![r] = after]
    /\ pc' = [pc EXCEPT ![r] = after]

\* run_command, lines 14-16: start the child and block on it
Spawn(r, cmd, after) ==
    /\ started' = [started EXCEPT ![r] = Append(@, [cmd |-> cmd, seen |-> fs, dir |-> dir_exists])]
    /\ ret' = [ret EXCEPT ![r] = after]
    /\ pc' = [pc EXCEPT ![r] = "wait"]

\* ensure_mapping, one gated stage (lines 35-42, 45-52, 55-63)
Stage(r, a) ==
    /\ pc[r] = a
    /\ gates' = [gates EXCEPT ![r] = Append(@, [stage |-> a, existed |-> fs[a].present, content |-> fs[a]])]
    /\ IF ~exists(a)
       THEN Spawn(r, StageCmd(a), NextStage(a))
       ELSE /\ pc' = [pc EXCEPT ![r] = NextStage(a)]
            /\ UNCHANGED <<started, ret>>
    /\ UNCHANGED <<fs, out_dir, dir_exists, pngs, rcs, data, idx, exit_code, pure>>

\* what a finished child left on disk: each tool is a black box that writes
\* nothing or some file at the output path it was given
ToolEffect(cmd) ==
    CASE cmd.art \in {"risk_db", "enriched"} ->
           /\ \E w \in {fs[cmd.art]} \cup NewDbs : fs' = [fs EXCEPT ![cmd.art] = w]
           /\ UNCHANGED pngs
      [] cmd.art = "threat_map" ->
           /\ \E w \in {fs.threat_map} \cup TmFiles : fs' = [fs EXCEPT !.threat_map = w]
           /\ UNCHANGED pngs
      [] cmd.art = "png" ->
           /\ \E wrote \in BOOLEAN : pngs' = IF wrote THEN pngs \cup {cmd.out} ELSE pngs
           /\ UNCHANGED fs

\* a loop that never leaves the entry it is at
NextIndex_stay(i) == i

\* a loop that steps over every other entry
NextIndex_skip(i) == i + 2

\* visualize_calls, line 83: the for loop moves to the entry after this one
NextIndex(i) == i + 1

\* a test that lets every returncode through
Failed_never(rc) == FALSE

\* a test that misses a child killed by a signal
Failed_positive(rc) == rc > 0

\* run_command, line 17
Failed(rc) == rc # 0

\* an exit that drops the child's returncode
ExitStatus_one(rc) == 1

\* run_command, line 20: sys.exit(returncode) ends the process with the low
\* eight bits of the returncode
ExitStatus(rc) == rc % 256

\* run_command, lines 16-20: the child exits; a non-zero returncode ends the
\* workflow through sys.exit(returncode), whose status is returncode mod 256.
\* After a visualizer call that returned zero the loop prints and moves on.
ChildExit(r) ==
    /\ pc[r] = "wait"
    /\ LET cmd == started[r][Len(started[r])].cmd
       IN  /\ ToolEffect(cmd)
           /\ \E rc \in ReturnCodes :
                /\ rcs' = [rcs EXCEPT ![r] = Append(@, rc)]
                /\ IF Failed(rc)
                   THEN /\ pc' = [pc EXCEPT ![r] = "exited"]
                        /\ exit_code' = [exit_code EXCEPT ![r] = ExitStatus(rc)]
                        /\ UNCHANGED idx
                   ELSE /\ pc' = [pc EXCEPT ![r] = ret[r]]
                        /\ idx' = [idx EXCEPT ![r] = IF cmd.art = "png" THEN NextIndex(@) ELSE @]
                        /\ UNCHANGED exit_code
    /\ UNCHANGED <<out_dir, dir_exists, ret, gates, started, data, pure>>

\* visualize_calls, line 75: the test of the output directory
EnsureOutputDir(r) ==
    /\ pc[r] = "mkdir"
    /\ pc' = [pc EXCEPT ![r] = IF dir_exists THEN "load" ELSE "makedirs"]
    /\ UNCHANGED <<fs, out_dir, dir_exists, pngs, ret, gates, started, rcs, data, idx, exit_code, pure>>

\* a creation that is left out
MakeDirs_forget(r) ==
    /\ pc[r] = "makedirs"
    /\ pc' = [pc EXCEPT ![r] = "load"]
    /\ UNCHANGED <<fs, out_dir, dir_exists, pngs, ret, gates, started, rcs, data, idx, exit_code, pure>>

\* visualize_calls, line 76: os.makedirs creates the directory; it raises
\* FileExistsError, which ends the interpreter with status 1, when the
\* directory has appeared since the test
MakeDirs(r) ==
    /\ pc[r] = "makedirs"
    /\ IF dir_exists
       THEN /\ pc' = [pc EXCEPT ![r] = "exited"]
            /\ exit_code' = [exit_code EXCEPT ![r] = 1]
            /\ UNCHANGED dir_exists
       ELSE /\ dir_exists' = TRUE
            /\ pc' = [pc EXCEPT ![r] = "load"]
            /\ UNCHANGED exit_code
    /\ UNCHANGED <<fs, out_dir, pngs, ret, gates, started, rcs, data, idx, pure>>

\* a loader that takes an unreadable threat map for an empty one
LoadThreatMap_lenient(r) ==
    /\ pc[r] = "load"
    /\ data' = [data EXCEPT ![r] = IF fs.threat_map.present /\ fs.threat_map.parses
                                    THEN fs.threat_map.body ELSE <<>>]
    /\ idx' = [idx EXCEPT ![r] = 1]
    /\ pc' = [pc EXCEPT ![r] = "loop"]
    /\ UNCHANGED <<fs, out_dir, dir_exists, pngs, ret, gates, started, rcs, exit_code, pure>>

\* visualize_calls, lines 79-80: open and json.load; a missing or unparsable
\* file raises, and the uncaught exception ends the interpreter with status 1
LoadThreatMap(r) ==
    /\ pc[r] = "load"
    /\ IF fs.threat_map.present /\ fs.threat_map.parses
       THEN /\ data' = [data EXCEPT ![r] = fs.threat_map.body]
            /\ idx' = [idx EXCEPT ![r] = 1]
            /\ pc' = [pc EXCEPT ![r] = "loop"]
            /\ UNCHANGED exit_code
       ELSE /\ pc' = [pc EXCEPT ![r] = "exited"]
            /\ exit_code' = [exit_code EXCEPT ![r] = 1]
            /\ UNCHANGED <<data, idx>>
    /\ UNCHANGED <<fs, out_dir, dir_exists, pngs, ret, gates, started, rcs, pure>>

\* a loop that leaves out an entry whose diagram file is already there
Loop_gated(r) ==
    /\ pc[r] = "loop"
    /\ IF idx[r] > Len(data[r])
       THEN /\ pc' = [pc EXCEPT ![r] = "done"]
            /\ exit_code' = [exit_code EXCEPT ![r] = 0]
            /\ UNCHANGED <<idx, started, ret>>
       ELSE LET entry == data[r][idx[r]]
            IN  IF falsy(entry, "file") \/ falsy(entry, "api") \/ out_png(entry, out_dir) \in pngs
                THEN /\ idx' = [idx EXCEPT ![r] = NextIndex(@)]
                     /\ UNCHANGED <<pc, exit_code, started, ret>>
                ELSE /\ Spawn(r, VizCmd(entry, out_dir, idx[r]), "loop")
                     /\ UNCHANGED <<idx, exit_code>>
    /\ UNCHANGED <<fs, out_dir, dir_exists, pngs, gates, rcs, data, pure>>

\* visualize_calls, lines 83-103: one iteration of the loop up to run_command,
\* or the end of the loop and of main (lines 135-137)
Loop(r) ==
    /\ pc[r] = "loop"
    /\ IF idx[r] > Len(data[r])
       THEN /\ pc' = [pc EXCEPT ![r] = "done"]
            /\ exit_code' = [exit_code EXCEPT ![r] = 0]
            /\ UNCHANGED <<idx, started, ret>>
       ELSE LET entry == data[r][idx[r]]
            IN  IF falsy(entry, "file") \/ falsy(entry, "api")
                THEN /\ idx' = [idx EXCEPT ![r] = NextIndex(@)]
                     /\ UNCHANGED <<pc, exit_code, started, ret>>
                ELSE /\ Spawn(r, VizCmd(entry, out_dir, idx[r]), "loop")
                     /\ UNCHANGED <<idx, exit_code>>
    /\ UNCHANGED <<fs, out_dir, dir_exists, pngs, gates, rcs, data, pure>>

Step(r) ==
    \/ Main(r)
    \/ \E a \in Artifacts : Stage(r, a)
    \/ ChildExit(r)
    \/ EnsureOutputDir(r)
    \/ MakeDirs(r)
    \/ LoadThreatMap(r)
    \/ Loop(r)

\* one invocation of the workflow
Next == Step("r1")

Spec == Init /\ [][Next]_vars

(***************************************************************************)
(* The naming functions applied on their own to one entry                  *)
(***************************************************************************)
Patterns == SeqsUpTo(PatChars, MaxPatLen)

NamePatterns == SeqsUpTo(PatChars, MaxNamePatLen)

\* every pattern with one file, and every file, root, directory and position
\* with the shorter patterns
PureJobs ==
    [dir : {<<"o">>}, pos : {1}, entry : [file : {<<"u", ".", "p", "y">>}, api : Patterns]]
    \cup [dir : PureDirs, pos : 1..2,
         entry : [file : FileNames, api : NamePatterns]
                 \cup [file : FileNames, api : NamePatterns, code_root : CodeRoots]]

InitPure ==
    /\ fs = [risk_db |-> Absent, enriched |-> Absent, threat_map |-> Absent]
    /\ out_dir = <<"o">>
    /\ dir_exists = FALSE
    /\ pngs = {}
    /\ pc = [r \in Runs |-> "idle"]
    /\ ret = [r \in Runs |-> "idle"]
    /\ gates = [r \in Runs |-> <<>>]
    /\ started = [r \in Runs |-> <<>>]
    /\ rcs = [r \in Runs |-> <<>>]
    /\ data = [r \in Runs |-> <<>>]
    /\ idx = [r \in Runs |-> 0]
    /\ exit_code = [r \in Runs |-> -1]
    /\ job \in PureJobs
    /\ norm = <<>>
    /\ built = <<>>

\* line 93 applied to the api pattern, then to its own result
Normalize ==
    /\ Len(norm) < 2
    /\ norm' = Append(norm, target_name([job.entry EXCEPT !.api = IF norm = <<>> THEN @ ELSE norm[Len(norm)]]))
    /\ UNCHANGED <<flow, job, built>>

\* a filter that tests the normalized pattern instead of the raw one
Build_normalized ==
    /\ built = <<>>
    /\ ~(falsy(job.entry, "file") \/ falsy(job.entry, "api") \/ target_name(job.entry) = <<>>)
    /\ built' = <<VizCmd(job.entry, job.dir, job.pos)>>
    /\ UNCHANGED <<flow, job, norm>>

\* lines 86-102 applied to the entry: the command of a valid entry
Build ==
    /\ built = <<>>
    /\ ~(falsy(job.entry, "file") \/ falsy(job.entry, "api"))
    /\ built' = <<VizCmd(job.entry, job.dir, job.pos)>>
    /\ UNCHANGED <<flow, job, norm>>

NextPure == Normalize \/ Build

SpecPure == InitPure /\ [][NextPure]_vars

(***************************************************************************)
(* Properties of one run of the workflow (specification Spec)              *)
(***************************************************************************)
\* the calls run r has started for artifact a, as positions of its call log
CallsFor(r, a) == {k \in 1..Len(started[r]) : started[r][k].cmd.art = a}

\* C1: a stage whose output artifact is on disk when its gate is evaluated
\* has its tool started at no point of the run, and the artifact keeps the
\* content it had at the gate.
C1_Idempotence ==
    \A k \in 1..Len(gates["r1"]) :
        LET g == gates["r1"][k]
        IN  g.existed => /\ CallsFor("r1", g.stage) = {}
                         /\ fs[g.stage] = g.content

\* the run ended after reusing the risk database while the enricher and the
\* mapper ran and wrote their artifacts
C1_Witness ==
    /\ pc["r1"] = "done"
    /\ gates["r1"][1].existed
    /\ CallsFor("r1", "enriched") # {} /\ CallsFor("r1", "threat_map") # {}
    /\ fs.enriched = File(<<"new">>)
    /\ fs.risk_db = File(<<"old">>)

\* the artifact a stage's tool reads
InputOf(a) == IF a = "enriched" THEN "risk_db" ELSE "enriched"

\* C2 as stated: the enricher and the mapper are started only while their
\* input artifact is on disk and not empty.
C2_Original ==
    \A k \in CallsFor("r1", "enriched") \cup CallsFor("r1", "threat_map") :
        LET c == started["r1"][k]
            input == c.seen[InputOf(c.cmd.art)]
        IN  input.present /\ input.body # <<>>

\* stage a was passed before call k of run r: its gate found the artifact, or
\* an earlier call of its tool returned zero
Passed(r, a, k) ==
    \E g \in 1..Len(gates[r]) :
        /\ gates[r][g].stage = a
        /\ \/ gates[r][g].existed
           \/ \E j \in CallsFor(r, a) : j < k /\ rcs[r][j] = 0

\* C2, amended: the enricher and the mapper are started only after the
\* stage before them was passed, that is after its gate found its artifact
\* on disk (whatever its content) or its tool returned zero (whatever it
\* wrote).
C2_Order ==
    \A k \in CallsFor("r1", "enriched") \cup CallsFor("r1", "threat_map") :
        Passed("r1", InputOf(started["r1"][k].cmd.art), k)

\* all three tools ran, each on the artifact the one before it wrote
C2_Witness ==
    /\ Len(started["r1"]) >= 3
    /\ started["r1"][2].seen.risk_db = File(<<"new">>)
    /\ started["r1"][3].cmd.art = "threat_map"
    /\ started["r1"][3].seen.enriched = File(<<"new">>)

\* C3: a call that returned non-zero is the last call the run started, and
\* the run has exited.
C3_FailFast ==
    \A k \in 1..Len(rcs["r1"]) :
        rcs["r1"][k] # 0 => k = Len(started["r1"]) /\ pc["r1"] = "exited"

\* a visualizer call failed after the mapper succeeded, with a valid entry of
\* the threat map still to come
C3_Witness ==
    /\ pc["r1"] = "exited"
    /\ Len(rcs["r1"]) >= 2
    /\ rcs["r1"][Len(rcs["r1"])] = 3
    /\ started["r1"][Len(rcs["r1"])].cmd.art = "png"
    /\ started["r1"][Len(rcs["r1"]) - 1].cmd.art = "threat_map"
    /\ idx["r1"] < Len(data["r1"])
    /\ data["r1"][idx["r1"] + 1] = EntryEvalB

\* C4: a terminated run whose calls all returned zero and that loaded the
\* threat map has exit code 0; a run whose first failing call exited with a
\* status in 1..255 has terminated with exactly that status.
C4_ExitCode ==
    /\ (/\ Terminated("r1")
        /\ \A k \in 1..Len(rcs["r1"]) : rcs["r1"][k] = 0
        /\ idx["r1"] >= 1) => exit_code["r1"] = 0
    /\ \A k \in 1..Len(rcs["r1"]) :
          (/\ rcs["r1"][k] \in 1..255
           /\ \A j \in 1..(k - 1) : rcs["r1"][j] = 0) =>
             Terminated("r1") /\ exit_code["r1"] = rcs["r1"][k]

\* the mapper exited with status 255 after the extractor and the enricher
\* succeeded, and the run exited with 255
C4_Witness ==
    /\ rcs["r1"] = <<0, 0, 255>>
    /\ started["r1"][3].cmd.art = "threat_map"
    /\ exit_code["r1"] = 255

\* an entry whose file or api is absent or empty
Invalid(e) ==
    \/ "file" \notin DOMAIN e \/ e.file = <<>>
    \/ "api" \notin DOMAIN e \/ e.api = <<>>

\* the calls run r has started for entry i of its threat map
CallsForEntry(r, i) ==
    {k \in CallsFor(r, "png") : started[r][k].cmd.entry = i}

\* C5: an entry whose file or api is absent or empty gets no visualizer
\* call and does not end the run when the loop reaches it, and every valid
\* entry after it that the loop has reached or passed has its call.
C5_EntryFiltering ==
    \A i \in 1..Len(data["r1"]) :
        Invalid(data["r1"][i]) =>
          /\ CallsForEntry("r1", i) = {}
          /\ idx["r1"] = i => pc["r1"] = "loop"
          /\ \A j \in (i + 1)..Len(data["r1"]) :
                (/\ ~Invalid(data["r1"][j])
                 /\ \/ pc["r1"] = "done"
                    \/ idx["r1"] > j
                    \/ idx["r1"] = j /\ pc["r1"] # "loop") => CallsForEntry("r1", j) # {}

\* the run ended after skipping an entry without file and visualizing the
\* entry after it
C5_Witness ==
    /\ pc["r1"] = "done"
    /\ data["r1"] = <<EntryNoFile, EntryEval>>
    /\ CallsForEntry("r1", 2) # {}
    /\ Len(started["r1"]) = 1

StageOrder == <<"risk_db", "enriched", "threat_map">>

\* C6: the gates are evaluated in the order extract, enrich, map, each at
\* most once; a stage's tool has been started once if its gate found the
\* artifact absent and never otherwise; a run that left the pipeline
\* evaluated all three, and a run that ended before that ended on a failed
\* stage call.
C6_Lifecycle ==
    /\ Len(gates["r1"]) <= 3
    /\ \A k \in 1..3 :
          IF k <= Len(gates["r1"])
          THEN /\ gates["r1"][k].stage = StageOrder[k]
               /\ Cardinality(CallsFor("r1", StageOrder[k])) = IF gates["r1"][k].existed THEN 0 ELSE 1
          ELSE CallsFor("r1", StageOrder[k]) = {}
    /\ (pc["r1"] \in {"mkdir", "makedirs", "load", "loop", "done"} \/ CallsFor("r1", "png") # {}) => Len(gates["r1"]) = 3
    /\ (pc["r1"] = "exited" /\ Len(gates["r1"]) < 3) =>
          /\ Len(rcs["r1"]) = Len(started["r1"])
          /\ rcs["r1"][Len(rcs["r1"])] # 0
          /\ started["r1"][Len(rcs["r1"])].cmd.art = StageOrder[Len(gates["r1"])]

\* with both risk databases on disk and no threat map, the run ended after
\* starting the mapper once and no other stage tool
C6_Witness ==
    /\ pc["r1"] = "done"
    /\ gates["r1"][1].existed /\ gates["r1"][2].existed /\ ~gates["r1"][3].existed
    /\ started["r1"][1].cmd.art = "threat_map"
    /\ Cardinality(CallsFor("r1", "threat_map")) = 1
    /\ Len(started["r1"]) = 2

\* the entries the visualizer was started for, in the order of the calls
RECURSIVE PngEntries(_)
PngEntries(log) ==
    IF log = <<>> THEN <<>>
    ELSE IF Head(log).cmd.art = "png" THEN <<Head(log).cmd.entry>> \o PngEntries(Tail(log))
    ELSE PngEntries(Tail(log))

\* the positions of the valid entries of a threat map, in its order
RECURSIVE ValidFrom(_, _)
ValidFrom(m, i) ==
    IF i > Len(m) THEN <<>>
    ELSE IF Invalid(m[i]) THEN ValidFrom(m, i + 1)
    ELSE <<i>> \o ValidFrom(m, i + 1)

IsPrefix(s, t) == Len(s) <= Len(t) /\ s = SubSeq(t, 1, Len(s))

\* C7: the visualizer is started only after all three gates were evaluated
\* and every earlier call returned zero; its calls follow the valid entries
\* of the threat map in order, one call each, and a run that ends without a
\* failure has made exactly one call per valid entry.
C7_Dispatch ==
    /\ \A k \in CallsFor("r1", "png") :
          /\ Len(gates["r1"]) = 3
          /\ \A j \in 1..(k - 1) : rcs["r1"][j] = 0
    /\ IsPrefix(PngEntries(started["r1"]), ValidFrom(data["r1"], 1))
    /\ pc["r1"] = "done" =>
          /\ PngEntries(started["r1"]) = ValidFrom(data["r1"], 1)
          /\ Cardinality(CallsFor("r1", "png")) = Cardinality({i \in 1..Len(data["r1"]) : ~Invalid(data["r1"][i])})

\* the run ended after the mapper and two visualizer calls, one for each of
\* two valid entries
C7_Witness ==
    /\ pc["r1"] = "done"
    /\ data["r1"] = <<EntryInner, EntryEval>>
    /\ Len(started["r1"]) = 3
    /\ started["r1"][1].cmd.art = "threat_map"
    /\ PngEntries(started["r1"]) = <<1, 2>>

(***************************************************************************)
(* Properties of the naming functions (specification SpecPure)             *)
(***************************************************************************)
\* C8: stripping the stripped pattern gives the stripped pattern again.
C8_StripIdempotent == Len(norm) = 2 => norm[2] = norm[1]

\* a pattern with two leading characters to strip was stripped twice
C8_Witness ==
    /\ job.entry.api = <<"\\", "^", "e", "$">>
    /\ norm = <<(<<"e">>), (<<"e">>)>>

StripSet == {"^", "$", "\\"}

\* t is s without a prefix and a suffix of strip characters, both maximal
BoundaryTrim(s, t) ==
    \E i \in 0..Len(s) : \E j \in i..Len(s) :
        /\ t = SubSeq(s, i + 1, j)
        /\ \A k \in 1..i : s[k] \in StripSet
        /\ \A k \in (j + 1)..Len(s) : s[k] \in StripSet
        /\ t # <<>> => t[1] \notin StripSet /\ t[Len(t)] \notin StripSet

\* C9: the target identifier is the api pattern without its maximal prefix
\* and maximal suffix of characters from {^, $, \}; what lies between is
\* kept as it is, interior ^, $ and \ included.
C9_BoundaryOnly == Len(norm) >= 1 => BoundaryTrim(job.entry.api, norm[1])

\* a pattern with an anchor at each end and one inside keeps the inner one
C9_Witness ==
    /\ job.entry.api = <<"^", "e", "$", ".">>
    /\ Len(norm) >= 1
    /\ norm[1] = <<"e", "$", ".">>

\* the last component of a path: what follows its last slash
FinalComponent(p) ==
    LET k == CHOOSE k \in 0..Len(p) :
                 /\ k = 0 \/ p[k] = "/"
                 /\ \A j \in (k + 1)..Len(p) : p[j] # "/"
    IN  SubSeq(p, k + 1, Len(p))

\* a file name without its extension: the extension starts at the last dot,
\* and a name that has only dots before its last dot has no extension
WithoutExtension(c) ==
    LET dots == {d \in 1..Len(c) : /\ c[d] = "."
                                   /\ \A j \in (d + 1)..Len(c) : c[j] # "."
                                   /\ \E j \in 1..(d - 1) : c[j] # "."}
    IN  IF dots = {} THEN c ELSE SubSeq(c, 1, (CHOOSE d \in dots : TRUE) - 1)

TargetOf(s) == CHOOSE t \in {SubSeq(s, i + 1, j) : i \in 0..Len(s), j \in 0..Len(s)} : BoundaryTrim(s, t)

PngName(file, api) ==
    WithoutExtension(FinalComponent(file)) \o <<"_">> \o TargetOf(api) \o <<".", "p", "n", "g">>

\* C10 as stated: the output path is <output_dir>/<base_name>_<target>.png.
C10_Original ==
    built # <<>> => built[1].out = job.dir \o <<"/">> \o PngName(job.entry.file, job.entry.api)

\* C10, amended: the output path is the output directory, a slash unless
\* the directory already ends with one, and <base_name>_<target>.png; it is
\* the same whatever the entry's position and code_root.
C10_Naming ==
    built # <<>> =>
        built[1].out = job.dir \o (IF job.dir[Len(job.dir)] = "/" THEN <<>> ELSE <<"/">>)
                               \o PngName(job.entry.file, job.entry.api)

\* app-style file a/u.py with pattern ^e gives o/u_e.png, at the second
\* position and under a code root
C10_Witness ==
    /\ built # <<>>
    /\ job.dir = <<"o">> /\ job.pos = 2
    /\ job.entry = [file |-> <<"a", "/", "u", ".", "p", "y">>, api |-> <<"^", "e">>, code_root |-> <<"r">>]
    /\ built[1].out = <<"o", "/", "u", "_", "e", ".", "p", "n", "g">>

\* C11: a run has one child at most; while its child runs, the only step of
\* the run is the child's exit, which starts nothing and moves no other part
\* of the run; a run without a child starts one child at most in a step.
C11_Sequential ==
    [][IF Running("r1")
       THEN /\ pc["r1"] = "wait"
            /\ started' = started
            /\ Len(rcs'["r1"]) = Len(rcs["r1"]) + 1
            /\ UNCHANGED <<gates, data, dir_exists, ret>>
       ELSE /\ Len(started'["r1"]) <= Len(started["r1"]) + 1
            /\ rcs' = rcs]_vars

\* the mapper is running after the extractor and the enricher ran to their end
C11_Witness ==
    /\ Running("r1")
    /\ Len(started["r1"]) = 3
    /\ rcs["r1"] = <<0, 0>>
    /\ started["r1"][3].cmd.art = "threat_map"

\* C12: at every gate the decision follows from the existence of the file
\* alone: the stage's tool is started when the path is absent and is not
\* started when a file is there, be it empty, truncated or complete; so two
\* disks that agree on which paths exist get the same decisions.
C12_ExistenceOnly ==
    \A k \in 1..Len(gates["r1"]) :
        LET g == gates["r1"][k]
            executed == CallsFor("r1", g.stage) # {}
        IN  /\ g.content = Absent => executed
            /\ g.content = EmptyFile => ~executed
            /\ g.content.present /\ g.content.parses => ~executed

\* an empty risk database and a complete enriched one were both reused, and
\* the mapper was started for the absent threat map
C12_Witness ==
    /\ Len(gates["r1"]) = 3
    /\ gates["r1"][1].content = EmptyFile
    /\ gates["r1"][2].content = File(<<"old">>)
    /\ gates["r1"][3].content = Absent
    /\ Len(started["r1"]) >= 1
    /\ started["r1"][1].cmd.art = "threat_map"

(***************************************************************************)
(* Two invocations of the workflow against the same paths                  *)
(***************************************************************************)
\* the threat maps on disk while two invocations run side by side
ConcMaps == {<<EntryEval>>}

ConcTmFiles == {Absent, EmptyFile} \cup {File(m) : m \in ConcMaps}

InitConc ==
    /\ fs \in [risk_db : {Absent, File(<<"old">>)}, enriched : {Absent, File(<<"old">>)},
               threat_map : {Absent, File(<<EntryEval>>)}]
    /\ out_dir = <<"o">>
    /\ dir_exists = FALSE
    /\ pngs = {}
    /\ pc = [r \in Runs |-> "idle"]
    /\ ret = [r \in Runs |-> "idle"]
    /\ gates = [r \in Runs |-> <<>>]
    /\ started = [r \in Runs |-> <<>>]
    /\ rcs = [r \in Runs |-> <<>>]
    /\ data = [r \in Runs |-> <<>>]
    /\ idx = [r \in Runs |-> 0]
    /\ exit_code = [r \in Runs |-> -1]
    /\ job = NoJob
    /\ norm = <<>>
    /\ built = <<>>

\* a step of one of the processes; the mapper writes one of ConcTmFiles
ConcStep(r) ==
    \/ Main(r)
    \/ \E a \in Artifacts : Stage(r, a)
    \/ ChildExit(r) /\ fs'.threat_map \in ConcTmFiles
    \/ EnsureOutputDir(r)
    \/ MakeDirs(r)
    \/ LoadThreatMap(r)
    \/ Loop(r)

\* the two processes take their steps in any order
NextConc == \E r \in Runs : ConcStep(r)

SpecConc == InitConc /\ [][NextConc]_vars

\* C13: each of two concurrent runs starts a stage's tool once at most, and
\* only after its own gate found the artifact absent; nothing ties the gate
\* of one run to the tool of the other, so both can start the same tool.
C13_PerRunOnce ==
    \A r \in Runs : \A a \in Artifacts :
        /\ Cardinality(CallsFor(r, a)) <= 1
        /\ CallsFor(r, a) # {} =>
             \E k \in 1..Len(gates[r]) : gates[r][k].stage = a /\ ~gates[r][k].existed

\* both runs found the risk database absent and started the extractor; the
\* first run's extractor has written it and the second's is still running
C13_Witness ==
    /\ \A r \in Runs : /\ gates[r] # <<>>
                       /\ ~gates[r][1].existed
                       /\ CallsFor(r, "risk_db") = {1}
    /\ rcs["r1"] = <<0>>
    /\ fs.risk_db = File(<<"new">>)
    /\ Running("r2")
    /\ Len(started["r2"]) = 1

\* C14: while the threat map on disk is missing or does not parse, no
\* visualizer call has been started, the run is not in the loop over the
\* entries and has not ended well: a run that ended has a non-zero exit code.
C14_MalformedMap ==
    ~(fs.threat_map.present /\ fs.threat_map.parses) =>
        /\ CallsFor("r1", "png") = {}
        /\ pc["r1"] \notin {"loop", "done"}
        /\ Terminated("r1") => exit_code["r1"] # 0

\* the mapper returned zero and left an unparsable file; the run created the
\* output directory and ended with status 1 at the load
C14_Witness ==
    /\ pc["r1"] = "exited"
    /\ exit_code["r1"] = 1
    /\ fs.threat_map = EmptyFile
    /\ Len(started["r1"]) = 1
    /\ started["r1"][1].cmd.art = "threat_map"
    /\ rcs["r1"] = <<0>>
    /\ dir_exists

\* C15: two valid entries with the same <base_name>_<target>.png both get
\* their visualizer call in a run that ends well, and the calls name the same
\* output path; diagram files exist only at paths the calls named, so there
\* are no more files than distinct paths.
C15_Collisions ==
    /\ \A i \in 1..Len(data["r1"]) : \A j \in (i + 1)..Len(data["r1"]) :
          LET ei == data["r1"][i]
              ej == data["r1"][j]
          IN  (/\ ~Invalid(ei) /\ ~Invalid(ej)
               /\ PngName(ei.file, ei.api) = PngName(ej.file, ej.api)) =>
                /\ pc["r1"] = "done" => CallsForEntry("r1", i) # {} /\ CallsForEntry("r1", j) # {}
                /\ \A ki \in CallsForEntry("r1", i) : \A kj \in CallsForEntry("r1", j) :
                      started["r1"][ki].cmd.out = started["r1"][kj].cmd.out
    /\ pngs \subseteq {started["r1"][k].cmd.out : k \in CallsFor("r1", "png")}

\* a/u.py with ^e$ and b/u.py with e were both visualized into o/u_e.png:
\* two calls that returned zero, one file
C15_Witness ==
    /\ pc["r1"] = "done"
    /\ data["r1"] = <<EntryEval, EntryEvalB>>
    /\ Cardinality(CallsFor("r1", "png")) = 2
    /\ pngs = {<<"o", "/", "u", "_", "e", ".", "p", "n", "g">>}

(***************************************************************************)
(* One run whose own steps are taken and whose children all exit           *)
(***************************************************************************)
\* the steps of the driver itself
Driver(r) ==
    \/ Main(r)
    \/ \E a \in Artifacts : Stage(r, a)
    \/ EnsureOutputDir(r)
    \/ MakeDirs(r)
    \/ LoadThreatMap(r)
    \/ Loop(r)

\* the runs that find no output directory
InitLive == Init /\ ~dir_exists

\* the interpreter goes on to its next statement, and every child that was
\* started exits at some time
SpecLive == InitLive /\ [][Next]_vars /\ WF_vars(Driver("r1")) /\ WF_vars(ChildExit("r1"))

\* C16: when every child exits, the run terminates; it never has started
\* more than three stage calls and one call per entry of the threat map; and
\* as long as a child has not exited the run waits for it, not terminated.
C16_Termination ==
    /\ <>Terminated("r1")
    /\ [](/\ Cardinality(CallsFor("r1", "png")) <= Len(data["r1"])
          /\ Len(started["r1"]) <= 3 + Len(data["r1"]))
    /\ [](Running("r1") => pc["r1"] = "wait" /\ ~Terminated("r1"))

\* the run ended after three stage calls and one visualizer call for each of
\* the two entries of its threat map
C16_Witness ==
    /\ pc["r1"] = "done"
    /\ Len(data["r1"]) = 2
    /\ Len(started["r1"]) = 5
    /\ Len(rcs["r1"]) = 5

\* the run is past lines 75-76, the directory test and creation
PastMkdir(r) ==
    \/ pc[r] \in {"load", "loop", "done"}
    \/ CallsFor(r, "png") # {}
    \/ pc[r] = "exited" /\ \A k \in 1..Len(rcs[r]) : rcs[r][k] = 0

\* C17: once the run is past the directory test and creation the output
\* directory exists, so it existed when each visualizer call was started and
\* also when the load of the threat map failed; a run that ended with no
\* failed call ended at that load and not at the directory step, whether the
\* directory was there before or not.
C17_OutputDir ==
    /\ PastMkdir("r1") => dir_exists
    /\ \A k \in CallsFor("r1", "png") : started["r1"][k].dir
    /\ (pc["r1"] = "exited" /\ \A k \in 1..Len(rcs["r1"]) : rcs["r1"][k] = 0) =>
          ~(fs.threat_map.present /\ fs.threat_map.parses)

\* the directory was not there when the mapper was started and is there when
\* the visualizer is started
C17_Witness ==
    /\ Len(started["r1"]) = 2
    /\ started["r1"][1].cmd.art = "threat_map" /\ ~started["r1"][1].dir
    /\ started["r1"][2].cmd.art = "png" /\ started["r1"][2].dir

(***************************************************************************)
(* The workflow invoked again after a run that ended well                  *)
(***************************************************************************)
\* the second invocation: it comes when the first run has ended with status
\* 0 and its three artifacts are on disk
Again(r) ==
    /\ pc["r1"] = "done"
    /\ \A a \in Artifacts : fs[a].present
    /\ Main(r)

NextRerun ==
    \/ Step("r1")
    \/ Again("r2")
    \/ \E a \in Artifacts : Stage("r2", a)
    \/ ChildExit("r2")
    \/ EnsureOutputDir("r2")
    \/ MakeDirs("r2")
    \/ LoadThreatMap("r2")
    \/ Loop("r2")

SpecRerun == Init /\ [][NextRerun]_vars

\* C18: the second run starts none of the three stage tools, loads the
\* threat map the first run loaded, and starts the visualizer for its valid
\* entries in order, once each when it ends well, whether or not the diagram
\* files are already there.
C18_NotGated ==
    /\ \A a \in Artifacts : CallsFor("r2", a) = {}
    /\ idx["r2"] >= 1 => data["r2"] = data["r1"]
    /\ IsPrefix(PngEntries(started["r2"]), ValidFrom(data["r2"], 1))
    /\ pc["r2"] = "done" => PngEntries(started["r2"]) = ValidFrom(data["r2"], 1)

\* the second run has started the visualizer for an entry whose diagram file
\* the first run left on disk
C18_Witness ==
    /\ Running("r2")
    /\ Len(started["r2"]) = 1
    /\ started["r2"][1].cmd.out \in pngs
    /\ Len(gates["r2"]) = 3

(***************************************************************************)
(* Anchor-only patterns (specification SpecPure)                           *)
(***************************************************************************)
\* the api pattern is non-empty and holds nothing but ^, $ and \
AnchorOnly(api) == api # <<>> /\ \A i \in 1..Len(api) : api[i] \in StripSet

\* C19 as stated: an entry with a file and an anchor-only api pattern passes
\* the filter, and its command has an empty target identifier and the output
\* path <output_dir>/<base_name>_.png.
C19_Original ==
    /\ (built = <<>> /\ AnchorOnly(job.entry.api) /\ job.entry.file # <<>>) => ENABLED Build
    /\ (built # <<>> /\ AnchorOnly(job.entry.api)) =>
        /\ built[1].target = <<>>
        /\ built[1].out = job.dir \o <<"/">> \o WithoutExtension(FinalComponent(job.entry.file))
                                  \o <<"_", ".", "p", "n", "g">>

\* C19, amended: an entry with a file and an api pattern that is non-empty
\* but holds only ^, $ and \ passes the filter; its command has an empty
\* target identifier and the output path is the output directory, a slash
\* unless the directory already ends with one, and <base_name>_.png.
C19_AnchorOnly ==
    /\ (built = <<>> /\ AnchorOnly(job.entry.api) /\ job.entry.file # <<>>) => ENABLED Build
    /\ (built # <<>> /\ AnchorOnly(job.entry.api)) =>
        /\ built[1].target = <<>>
        /\ built[1].out = job.dir \o (IF job.dir[Len(job.dir)] = "/" THEN <<>> ELSE <<"/">>)
                                  \o WithoutExtension(FinalComponent(job.entry.file))
                                  \o <<"_", ".", "p", "n", "g">>

\* the pattern ^$ for a/u.py under o: the image is o/u_.png
C19_Witness ==
    /\ built # <<>>
    /\ job.entry.api = <<"^", "$">>
    /\ job.entry.file = <<"a", "/", "u", ".", "p", "y">>
    /\ job.dir = <<"o">>
    /\ built[1].target = <<>>
    /\ built[1].out = <<"o", "/", "u", "_", ".", "p", "n", "g">>

====
